---- MODULE Spec2Model ----
(***************************************************************************)
(* A model of pygit2.c, the CPython binding over libgit2: the Tree mapping *)
(* protocol and its TreeEntry handles, the Repository lookups, and the     *)
(* Object / Commit wrappers.  Every handler of pygit2.c is an operator     *)
(* that computes the handler's outcome (the Python exception it sets, the  *)
(* value it returns, the native state it leaves) and an action that        *)
(* applies it.  libgit2 itself is not part of the repository: its calls    *)
(* are modelled as the object-database and tree interfaces the             *)
(* specification describes.                                                *)
(***************************************************************************)
EXTENDS Integers, Sequences, FiniteSets, TLC

VARIABLES
    entries,   \* the native git_tree of the Tree wrapper: its git_tree_entry sequence
    handles,   \* the live TreeEntry wrappers: slot -> self->entry (0: no wrapper)
    db,        \* the object database: oid -> stored object, or Absent
    obj,       \* the Object wrapper under test (NoObj: none), with its native object
    obj2,      \* a second Object wrapper the caller holds (NoObj: none)
    life,      \* reference counts and native allocations (lifetime specification)
    op,        \* the last call made: handler name and arguments
    res        \* its outcome: exception class, returned value, database access

vars == <<entries, handles, db, obj, obj2, life, op, res>>

-----------------------------------------------------------------------------
(* Bounds of the model. *)

\* Entries the tree of the tree specification may hold.
MaxLen == 3
\* Entries the tree of the entry specification may hold.
MaxEntryLen == 2
\* TreeEntry wrappers alive at once in the entry specification.
MaxHandles == 1
\* Hex digits of an object id (GIT_OID_HEXSZ is 40 in libgit2; scaled down).
HexSz == 2

-----------------------------------------------------------------------------
(* Python values handed to the handlers. *)

PyStr(s) == [t |-> "str", s |-> s, n |-> 0, items |-> <<>>]
PyInt(n) == [t |-> "int", s |-> <<>>, n |-> n, items |-> <<>>]
PyTuple(items) == [t |-> "tuple", s |-> <<>>, n |-> 0, items |-> items]
PyNone == [t |-> "none", s |-> <<>>, n |-> 0, items |-> <<>>]
\* The NULL PyObject* that mp_ass_subscript receives for `del tree[key]`.
PyNULL == [t |-> "NULL", s |-> <<>>, n |-> 0, items |-> <<>>]

PyString_Check(v) == v.t = "str"
PyInt_Check(v) == v.t = "int"

\* Exception classes; NoErr is a call that set none.
NoErr == "None"

\* Which database access a call made.
DbNone == "none"
DbRead == "read"
DbWrite == "write"

Result(err, val, dbacc) == [err |-> err, val |-> val, db |-> dbacc]

Op(name, h, a1, a2, a3) == [name |-> name, h |-> h, a1 |-> a1, a2 |-> a2, a3 |-> a3]

-----------------------------------------------------------------------------
(* The hex codec of libgit2 (git_oid_mkstr, git_oid_fmt). *)

HexDigits == <<"0", "1", "2", "3", "4", "5", "6", "7", "8", "9",
               "a", "b", "c", "d", "e", "f">>

IsLowerHex(c) == \E i \in 1..16 : HexDigits[i] = c
IsUpperHex(c) == c \in {"A", "B", "C", "D", "E", "F"}

LowerOf(c) ==
    CASE c = "A" -> "a" [] c = "B" -> "b" [] c = "C" -> "c"
      [] c = "D" -> "d" [] c = "E" -> "e" [] c = "F" -> "f"
      [] OTHER -> c

\* The value of one hex digit, -1 when the character is none.
from_hex(c) ==
    IF IsLowerHex(c) \/ IsUpperHex(c)
    THEN (CHOOSE i \in 1..16 : HexDigits[i] = LowerOf(c)) - 1
    ELSE -1

\* git_oid_mkstr: [ok, oid]; an oid is its HexSz nibbles.
git_oid_mkstr(hex) ==
    IF Len(hex) = HexSz /\ \A i \in 1..HexSz : from_hex(hex[i]) >= 0
    THEN [ok |-> TRUE, oid |-> [i \in 1..HexSz |-> from_hex(hex[i])]]
    ELSE [ok |-> FALSE, oid |-> <<>>]

\* git_oid_fmt: the lowercase hex text of an oid.
git_oid_fmt(oid) == [i \in 1..Len(oid) |-> HexDigits[oid[i] + 1]]

-----------------------------------------------------------------------------
(* Inputs. *)

Names == {<<"a">>, <<"b">>}

\* Two well-formed lowercase ids, one well-formed uppercase spelling of the
\* first, and three malformed texts: a non-hex character, one digit too few,
\* one digit too many.
HexLow == [i \in 1..HexSz |-> "a"]
HexOther == [i \in 1..HexSz |-> IF i = 1 THEN "0" ELSE "b"]
HexThird == [i \in 1..HexSz |-> IF i = 1 THEN "7" ELSE "c"]
HexUpper == [i \in 1..HexSz |-> "A"]
HexBadChar == [i \in 1..HexSz |-> IF i = 1 THEN "g" ELSE "a"]
HexShort == SubSeq(HexLow, 2, HexSz)
HexLong == Append(HexLow, "0")

WellFormedHex == {HexLow, HexOther, HexThird, HexUpper}
MalformedHex == {HexBadChar, HexShort, HexLong}

OidLow == git_oid_mkstr(HexLow).oid
OidOther == git_oid_mkstr(HexOther).oid
OidThird == git_oid_mkstr(HexThird).oid

DbOids == {OidLow, OidOther, OidThird}

\* What the database holds under an oid: a type tag and the raw bytes.
Stored(type, data) == [type |-> type, data |-> data]
Absent == Stored("absent", <<>>)

EmptyDb == [o \in DbOids |-> Absent]

-----------------------------------------------------------------------------
(* libgit2's tree interface: a git_tree is the sequence of its entries,    *)
(* an entry is [name, attr, oid].  An entry pointer (git_tree_entry * ) is *)
(* the position of the entry it points to; a pointer to an entry that was  *)
(* removed, and so freed, is a negative number naming the freed block.     *)

Entry(name, attr, oid) == [name |-> name, attr |-> attr, oid |-> oid]

RemoveAt(t, pos) == [i \in 1..(Len(t) - 1) |-> IF i < pos THEN t[i] ELSE t[i + 1]]

git_tree_entrycount(t) == Len(t)

\* The entry found (its position), 0 for NULL.
git_tree_entry_byindex(t, idx) == IF idx >= 0 /\ idx < Len(t) THEN idx + 1 ELSE 0

git_tree_entry_byname(t, name) ==
    IF \E i \in 1..Len(t) : t[i].name = name
    THEN CHOOSE i \in 1..Len(t) :
            /\ t[i].name = name
            /\ \A j \in 1..(i - 1) : t[j].name # name
    ELSE 0

\* [rc, tree]: rc < 0 on failure (the allocation of the entry failed).
git_tree_add_entry(t, oid, name, attr, alloc_ok) ==
    IF alloc_ok
    THEN [rc |-> 0, tree |-> Append(t, Entry(name, attr, oid))]
    ELSE [rc |-> -1, tree |-> t]

\* [rc, tree, pos]: pos is the position of the entry removed and freed.
git_tree_remove_entry_byindex(t, idx) ==
    IF git_tree_entry_byindex(t, idx) = 0
    THEN [rc |-> -1, tree |-> t, pos |-> 0]
    ELSE [rc |-> 0, tree |-> RemoveAt(t, idx + 1), pos |-> idx + 1]

git_tree_remove_entry_byname(t, name) ==
    IF git_tree_entry_byname(t, name) = 0
    THEN [rc |-> -1, tree |-> t, pos |-> 0]
    ELSE [rc |-> 0, tree |-> RemoveAt(t, git_tree_entry_byname(t, name)),
          pos |-> git_tree_entry_byname(t, name)]

\* A store through an entry pointer. Through a pointer to a freed entry the
\* store lands in freed memory, and no entry of the tree changes.
git_tree_entry_set_name(t, entry, name) ==
    [i \in 1..Len(t) |-> IF i = entry THEN [t[i] EXCEPT !.name = name] ELSE t[i]]

git_tree_entry_set_id(t, entry, oid) ==
    [i \in 1..Len(t) |-> IF i = entry THEN [t[i] EXCEPT !.oid = oid] ELSE t[i]]

-----------------------------------------------------------------------------
(* The Tree handlers of pygit2.c. *)

Tree_len(t) == git_tree_entrycount(t)

Tree_contains(t, py_name) ==
    PyString_Check(py_name) /\ git_tree_entry_byname(t, py_name.s) # 0

\* Tree_fix_index without the rewriting of negative indices.
Tree_fix_index_NoRewrite(t, py_index) ==
    LET index == py_index.n
        slen == git_tree_entrycount(t)
    IN  IF index >= slen THEN [err |-> "IndexError", index |-> -1]
        ELSE IF index < -slen THEN [err |-> "IndexError", index |-> -1]
        ELSE [err |-> NoErr, index |-> index]

\* [err, index]
Tree_fix_index(t, py_index) ==
    LET index == py_index.n
        slen == git_tree_entrycount(t)
    IN  IF index >= slen THEN [err |-> "IndexError", index |-> -1]
        ELSE IF index < -slen THEN [err |-> "IndexError", index |-> -1]
        ELSE [err |-> NoErr, index |-> IF index < 0 THEN slen + index ELSE index]

\* [err, entry]: entry is the pointer the new TreeEntry wraps, 0 when none is.
Tree_getitem_by_name(t, py_name) ==
    LET entry == git_tree_entry_byname(t, py_name.s)
    IN  IF entry = 0 THEN [err |-> "KeyError", entry |-> 0]
        ELSE [err |-> NoErr, entry |-> entry]

Tree_getitem_by_index(t, py_index) ==
    LET f == Tree_fix_index(t, py_index)
    IN  IF f.err # NoErr THEN [err |-> f.err, entry |-> 0]
        ELSE IF git_tree_entry_byindex(t, f.index) = 0
             THEN [err |-> "IndexError", entry |-> 0]
             ELSE [err |-> NoErr, entry |-> git_tree_entry_byindex(t, f.index)]

Tree_getitem(t, value) ==
    IF PyString_Check(value) THEN Tree_getitem_by_name(t, value)
    ELSE IF PyInt_Check(value) THEN Tree_getitem_by_index(t, value)
    ELSE [err |-> "TypeError", entry |-> 0]

\* Tree_delitem_by_name that drops the library's return code.
Tree_delitem_by_name_Unchecked(t, name) ==
    LET r == git_tree_remove_entry_byname(t, name.s)
    IN  [err |-> NoErr, tree |-> r.tree, pos |-> r.pos]

\* [err, tree, pos]
Tree_delitem_by_name(t, name) ==
    LET r == git_tree_remove_entry_byname(t, name.s)
    IN  IF r.rc < 0 THEN [err |-> "KeyError", tree |-> t, pos |-> 0]
        ELSE [err |-> NoErr, tree |-> r.tree, pos |-> r.pos]

\* Tree_delitem_by_index that hands the index to the library as given.
Tree_delitem_by_index_Raw(t, py_index) ==
    LET r == git_tree_remove_entry_byindex(t, py_index.n)
    IN  IF r.rc < 0 THEN [err |-> "IndexError", tree |-> t, pos |-> 0]
        ELSE [err |-> NoErr, tree |-> r.tree, pos |-> r.pos]

Tree_delitem_by_index(t, py_index) ==
    LET f == Tree_fix_index(t, py_index)
    IN  IF f.err # NoErr THEN [err |-> f.err, tree |-> t, pos |-> 0]
        ELSE LET r == git_tree_remove_entry_byindex(t, f.index)
             IN  IF r.rc < 0 THEN [err |-> "IndexError", tree |-> t, pos |-> 0]
                 ELSE [err |-> NoErr, tree |-> r.tree, pos |-> r.pos]

\* Tree_delitem without the test of value: an assignment deletes.
Tree_delitem_Assigning(t, name, value) ==
    IF PyString_Check(name) THEN Tree_delitem_by_name(t, name)
    ELSE IF PyInt_Check(name) THEN Tree_delitem_by_index(t, name)
    ELSE [err |-> "TypeError", tree |-> t, pos |-> 0]

Tree_delitem(t, name, value) ==
    IF value # PyNULL THEN [err |-> "ValueError", tree |-> t, pos |-> 0]
    ELSE IF PyString_Check(name) THEN Tree_delitem_by_name(t, name)
    ELSE IF PyInt_Check(name) THEN Tree_delitem_by_index(t, name)
    ELSE [err |-> "TypeError", tree |-> t, pos |-> 0]

\* Tree_add_entry that looks the target up in the database first.
Tree_add_entry_Validating(t, args, alloc_ok) ==
    IF ~(PyString_Check(args[1]) /\ PyString_Check(args[2]) /\ PyInt_Check(args[3]))
    THEN [err |-> "TypeError", tree |-> t, db |-> DbNone]
    ELSE IF ~git_oid_mkstr(args[1].s).ok
    THEN [err |-> "ValueError", tree |-> t, db |-> DbNone]
    ELSE IF db[git_oid_mkstr(args[1].s).oid] = Absent
    THEN [err |-> "KeyError", tree |-> t, db |-> DbRead]
    ELSE LET r == git_tree_add_entry(t, git_oid_mkstr(args[1].s).oid, args[2].s,
                                     args[3].n, alloc_ok)
         IN  IF r.rc < 0 THEN [err |-> "MemoryError", tree |-> t, db |-> DbRead]
             ELSE [err |-> NoErr, tree |-> r.tree, db |-> DbRead]

\* [err, tree, db]: args is <<hex, name, attributes>>; alloc_ok is the
\* success of the allocation inside git_tree_add_entry.
Tree_add_entry(t, args, alloc_ok) ==
    IF ~(PyString_Check(args[1]) /\ PyString_Check(args[2]) /\ PyInt_Check(args[3]))
    THEN [err |-> "TypeError", tree |-> t, db |-> DbNone]
    ELSE IF ~git_oid_mkstr(args[1].s).ok
    THEN [err |-> "ValueError", tree |-> t, db |-> DbNone]
    ELSE LET r == git_tree_add_entry(t, git_oid_mkstr(args[1].s).oid, args[2].s,
                                     args[3].n, alloc_ok)
         IN  IF r.rc < 0 THEN [err |-> "MemoryError", tree |-> t, db |-> DbNone]
             ELSE [err |-> NoErr, tree |-> r.tree, db |-> DbNone]

-----------------------------------------------------------------------------
(* The TreeEntry handlers: entry is self->entry. *)

\* The hex text of the entry's target id.
TreeEntry_get_sha(t, entry) == git_oid_fmt(t[entry].oid)

\* [err, tree, db]
TreeEntry_set_name(t, entry, value) ==
    IF ~PyString_Check(value) THEN [err |-> "TypeError", tree |-> t, db |-> DbNone]
    ELSE [err |-> NoErr, tree |-> git_tree_entry_set_name(t, entry, value.s), db |-> DbNone]

\* TreeEntry_set_sha that stores the oid buffer before it tests the parse:
\* on a malformed text the entry is left pointing at the zero id.
TreeEntry_set_sha_StoreFirst(t, entry, value) ==
    IF ~PyString_Check(value) THEN [err |-> "TypeError", tree |-> t, db |-> DbNone]
    ELSE IF ~git_oid_mkstr(value.s).ok
    THEN [err |-> "ValueError",
          tree |-> git_tree_entry_set_id(t, entry, [i \in 1..HexSz |-> 0]),
          db |-> DbNone]
    ELSE [err |-> NoErr, tree |-> git_tree_entry_set_id(t, entry, git_oid_mkstr(value.s).oid),
          db |-> DbNone]

TreeEntry_set_sha(t, entry, value) ==
    IF ~PyString_Check(value) THEN [err |-> "TypeError", tree |-> t, db |-> DbNone]
    ELSE IF ~git_oid_mkstr(value.s).ok
    THEN [err |-> "ValueError", tree |-> t, db |-> DbNone]
    ELSE [err |-> NoErr, tree |-> git_tree_entry_set_id(t, entry, git_oid_mkstr(value.s).oid),
          db |-> DbNone]

\* TreeEntry_dealloc: the wrapper in slot h is gone.
TreeEntry_dealloc(hs, h) == [hs EXCEPT ![h] = 0]

\* wrap_tree_entry: a new wrapper holding the entry pointer. The caller
\* keeps it in a free slot, and drops it at once when it holds MaxHandles.
wrap_tree_entry(hs, entry) ==
    IF \E h \in DOMAIN hs : hs[h] = 0
    THEN [hs EXCEPT ![CHOOSE h \in DOMAIN hs :
                         hs[h] = 0 /\ \A g \in DOMAIN hs : hs[g] = 0 => h <= g] = entry]
    ELSE hs

\* What the wrappers' pointers refer to once the entry at pos is removed and
\* freed: the pointers to it dangle (they name one freed block), and the
\* entries after it are one position down.
FreedBlocks(hs) == {-hs[h] : h \in {g \in DOMAIN hs : hs[g] < 0}}

PointersAfterRemove(hs, pos) ==
    LET block == CHOOSE c \in 1..(Cardinality(DOMAIN hs) + 1) :
                     /\ c \notin FreedBlocks(hs)
                     /\ \A d \in 1..(c - 1) : d \in FreedBlocks(hs)
    IN  [h \in DOMAIN hs |->
            IF pos = 0 THEN hs[h]
            ELSE IF hs[h] = pos THEN -block
            ELSE IF hs[h] > pos THEN hs[h] - 1
            ELSE hs[h]]

\* What they refer to once a new entry is allocated at position pos: the
\* allocator may hand out a freed block again (reuse is that block, and 0
\* when the address is one no wrapper points to).
PointersAfterAdd(hs, reuse, pos) ==
    [h \in DOMAIN hs |-> IF reuse # 0 /\ hs[h] = -reuse THEN pos ELSE hs[h]]

-----------------------------------------------------------------------------
(* The tree specification: one Tree wrapper, constructed empty by          *)
(* Tree_init; the TreeEntry wrappers it returns are dropped at once.       *)
(* The entry specification: the same, with the wrappers kept and used.     *)

Keys(cap) ==
    {PyStr(n) : n \in Names} \cup {PyInt(i) : i \in -(cap + 1)..(cap + 1)}
        \cup {PyNone}

AssignedValues == {PyNULL, PyNone, PyStr(<<"a">>)}

TreeHex == {HexLow, HexOther, HexUpper, HexBadChar, HexShort, HexLong}

\* add_entry's arguments; 33188 is the mode 0o100644 of a regular file.
AddArgs ==
    {<<PyStr(h), PyStr(n), PyInt(33188)>> : h \in TreeHex, n \in Names}
        \cup {<<PyNone, PyStr(<<"a">>), PyInt(33188)>>}

NameValues == {PyStr(n) : n \in Names} \cup {PyNone}

ShaValues == {PyStr(HexLow), PyStr(HexOther), PyStr(HexBadChar), PyStr(HexLong), PyNone}

\* The database no oid names, and a person no setter has set.
NoId == <<>>
NoPerson == [name |-> <<>>, email |-> <<>>, time |-> 0]

\* The content of an object: a commit's message, author and committer, and
\* rest, the bytes the wrappers never touch (a commit's tree and parents, a
\* blob's data).
Data(message, author, committer, rest) ==
    [message |-> message, author |-> author, committer |-> committer, rest |-> rest]

EmptyData == Data(<<>>, NoPerson, NoPerson, <<>>)

\* An Object wrapper with its native git_object: the type, the id (NoId
\* until written), libgit2's modified flag, own_obj, and the content.
WObj(type, id, modified, own_obj, data) ==
    [live |-> TRUE, type |-> type, id |-> id, modified |-> modified,
     own_obj |-> own_obj, data |-> data]

NoObj ==
    [live |-> FALSE, type |-> "none", id |-> NoId, modified |-> FALSE,
     own_obj |-> 0, data |-> EmptyData]

\* No Repository is open and no wrapper exists.
NoLife ==
    [repo_rc |-> 0, repo_held |-> FALSE, repo_open |-> FALSE,
     w |-> <<>>, e |-> <<>>, natives |-> <<>>]

\* The databases a tree is built against: an empty one, and one that holds
\* a blob under OidLow.
TreeDbs == {EmptyDb, [EmptyDb EXCEPT ![OidLow] = Stored("blob", <<"x">>)]}

TreeInit ==
    /\ entries = <<>>
    /\ handles = <<>>
    /\ db \in TreeDbs
    /\ obj = NoObj
    /\ obj2 = NoObj
    /\ life = NoLife
    /\ op = Op("Tree_init", 0, PyNULL, PyNULL, PyNULL)
    /\ res = Result(NoErr, 0, DbNone)

EntryInit ==
    /\ entries = <<>>
    /\ handles = [h \in 1..MaxHandles |-> 0]
    /\ db \in TreeDbs
    /\ obj = NoObj
    /\ obj2 = NoObj
    /\ life = NoLife
    /\ op = Op("Tree_init", 0, PyNULL, PyNULL, PyNULL)
    /\ res = Result(NoErr, 0, DbNone)

\* entry = tree[key]; res.val is the entry wrapped.
TreeGetItem(key) ==
    LET r == Tree_getitem(entries, key)
    IN  /\ entries' = entries
        /\ handles' = IF r.err = NoErr THEN wrap_tree_entry(handles, r.entry) ELSE handles
        /\ op' = Op("Tree_getitem", 0, key, PyNULL, PyNULL)
        /\ res' = Result(r.err, r.entry, DbNone)
        /\ UNCHANGED <<db, obj, obj2, life>>

\* tree[key] = value, and del tree[key] (value is NULL); res.val is the
\* position of the entry removed.
TreeDelItem(key, value) ==
    LET r == Tree_delitem(entries, key, value)
    IN  /\ entries' = r.tree
        /\ handles' = PointersAfterRemove(handles, r.pos)
        /\ op' = Op("Tree_delitem", 0, key, value, PyNULL)
        /\ res' = Result(r.err, r.pos, DbNone)
        /\ UNCHANGED <<db, obj, obj2, life>>

\* tree.add_entry(hex, name, attributes), on a tree that holds at most cap
\* entries afterwards.
TreeAddEntry(args, alloc_ok, reuse, cap) ==
    LET r == Tree_add_entry(entries, args, alloc_ok)
    IN  /\ Len(r.tree) <= cap
        /\ entries' = r.tree
        /\ handles' = IF r.err = NoErr
                      THEN PointersAfterAdd(handles, reuse, Len(r.tree))
                      ELSE handles
        /\ op' = Op("Tree_add_entry", 0, args[1], args[2], args[3])
        /\ res' = Result(r.err, 0, r.db)
        /\ UNCHANGED <<db, obj, obj2, life>>

\* entry.name = value
TreeEntrySetName(h, value) ==
    LET r == TreeEntry_set_name(entries, handles[h], value)
    IN  /\ handles[h] # 0
        /\ entries' = r.tree
        /\ op' = Op("TreeEntry_set_name", h, value, PyNULL, PyNULL)
        /\ res' = Result(r.err, 0, r.db)
        /\ UNCHANGED <<handles, db, obj, obj2, life>>

\* entry.sha = value
TreeEntrySetSha(h, value) ==
    LET r == TreeEntry_set_sha(entries, handles[h], value)
    IN  /\ handles[h] # 0
        /\ entries' = r.tree
        /\ op' = Op("TreeEntry_set_sha", h, value, PyNULL, PyNULL)
        /\ res' = Result(r.err, 0, r.db)
        /\ UNCHANGED <<handles, db, obj, obj2, life>>

\* The last reference to the wrapper in slot h is dropped.
TreeEntryDealloc(h) ==
    /\ handles[h] # 0
    /\ handles' = TreeEntry_dealloc(handles, h)
    /\ op' = Op("TreeEntry_dealloc", h, PyNULL, PyNULL, PyNULL)
    /\ res' = Result(NoErr, 0, DbNone)
    /\ UNCHANGED <<entries, db, obj, obj2, life>>

TreeNext ==
    \/ \E key \in Keys(MaxLen) : TreeGetItem(key)
    \/ \E key \in Keys(MaxLen), value \in AssignedValues : TreeDelItem(key, value)
    \/ \E args \in AddArgs, alloc_ok \in BOOLEAN : TreeAddEntry(args, alloc_ok, 0, MaxLen)

Spec == TreeInit /\ [][TreeNext]_vars

EntryNext ==
    \/ \E key \in Keys(MaxEntryLen) : TreeGetItem(key)
    \/ \E key \in Keys(MaxEntryLen) : TreeDelItem(key, PyNULL)
    \/ \E args \in AddArgs, alloc_ok \in BOOLEAN, reuse \in FreedBlocks(handles) \cup {0} :
          TreeAddEntry(args, alloc_ok, reuse, MaxEntryLen)
    \/ \E h \in DOMAIN handles, value \in NameValues : TreeEntrySetName(h, value)
    \/ \E h \in DOMAIN handles, value \in ShaValues : TreeEntrySetSha(h, value)
    \/ \E h \in DOMAIN handles : TreeEntryDealloc(h)

SpecEntry == EntryInit /\ [][EntryNext]_vars

-----------------------------------------------------------------------------
(* Properties of the Tree mapping protocol. *)

IsDel(o) == o.name = "Tree_delitem" /\ o.a2 = PyNULL
IsAssign(o) == o.name = "Tree_delitem" /\ o.a2 # PyNULL

\* The number of entries of t named name.
CountNamed(t, name) == Cardinality({i \in 1..Len(t) : t[i].name = name})

\* C1: for a tree of length n, get(i) fails with IndexError when i >= n or
\* i < -n, and otherwise returns the entry at position i (i >= 0) or n + i
\* (i < 0); get(-1) is get(n-1), and get(n) fails with IndexError.
C1_GetByIndex ==
    LET n == Tree_len(entries)
    IN  /\ (op.name = "Tree_getitem" /\ PyInt_Check(op.a1)) =>
              LET i == op.a1.n
              IN  /\ (i >= n \/ i < -n) => (res.err = "IndexError" /\ res.val = 0)
                  /\ (0 <= i /\ i < n) => (res.err = NoErr /\ res.val = i + 1)
                  /\ (-n <= i /\ i < 0) => (res.err = NoErr /\ res.val = n + i + 1)
        /\ n >= 1 => Tree_getitem(entries, PyInt(-1)) = Tree_getitem(entries, PyInt(n - 1))
        /\ Tree_getitem(entries, PyInt(n)).err = "IndexError"

\* get(-1) has returned the last of three entries.
C1_Witness ==
    /\ op.name = "Tree_getitem" /\ op.a1 = PyInt(-1)
    /\ res.err = NoErr /\ res.val = 3 /\ Tree_len(entries) = 3

\* C2: a successful add_entry(id, name, attributes) with a name not yet in
\* the tree makes the tree one entry longer, get(name).id() is then id, and
\* the call neither reads nor writes the database, whether or not it holds id.
C2_AddEntry ==
    [][(op'.name = "Tree_add_entry" /\ res'.err = NoErr /\ ~Tree_contains(entries, op'.a2))
        => /\ Tree_len(entries') = Tree_len(entries) + 1
           /\ Tree_contains(entries', op'.a2)
           /\ LET g == Tree_getitem(entries', op'.a2)
              IN  /\ g.err = NoErr
                  /\ git_oid_mkstr(TreeEntry_get_sha(entries', g.entry)).oid
                       = git_oid_mkstr(op'.a1.s).oid
           /\ res'.db = DbNone
           /\ db' = db]_vars

\* add_entry has added a second, differently named entry whose id is not in
\* the database.
C2_Witness ==
    /\ op.name = "Tree_add_entry" /\ res.err = NoErr
    /\ Tree_len(entries) = 2 /\ entries[1].name # entries[2].name
    /\ entries[2].name = op.a2.s
    /\ db[entries[2].oid] = Absent

C4_RemoveByIndex ==
    [][(IsDel(op') /\ PyInt_Check(op'.a1))
        => LET g == Tree_getitem(entries, op'.a1)
           IN  IF g.err # NoErr
               THEN /\ g.err = "IndexError" /\ res'.err = "IndexError"
                    /\ entries' = entries
               ELSE /\ res'.err = NoErr
                    /\ res'.val = g.entry
                    /\ Tree_len(entries') = Tree_len(entries) - 1
                    /\ \A j \in 1..(g.entry - 1) : entries'[j] = entries[j]
                    /\ \A j \in g.entry..Tree_len(entries') : entries'[j] = entries[j + 1]]_vars

\* remove(-3) has removed the first of three entries; the two left differ.
C4_Witness ==
    /\ IsDel(op) /\ op.a1 = PyInt(-3)
    /\ res.err = NoErr /\ res.val = 1
    /\ Tree_len(entries) = 2 /\ entries[1] # entries[2]

\* C5: tree[key] = value fails with ValueError ("Cannot set TreeEntry
\* directly") for every key and value and leaves the entries as they were;
\* the number of entries changes only in a successful remove or add_entry.
C5_NoAssignment ==
    [][/\ IsAssign(op') => (res'.err = "ValueError" /\ entries' = entries)
       /\ Tree_len(entries') # Tree_len(entries) =>
             /\ IsDel(op') \/ op'.name = "Tree_add_entry"
             /\ res'.err = NoErr]_vars

\* tree["a"] = None has failed on a tree that holds an entry "a".
C5_Witness ==
    /\ IsAssign(op) /\ op.a1 = PyStr(<<"a">>) /\ op.a2 = PyNone
    /\ res.err = "ValueError"
    /\ Tree_contains(entries, PyStr(<<"a">>))

\* C9: add_entry and set_id with a malformed hex text fail with ValueError
\* and change nothing: the entries and their target ids are as before, and
\* the database is neither read nor written.
C9_MalformedHex ==
    [][((op'.name = "Tree_add_entry" \/ op'.name = "TreeEntry_set_sha")
          /\ PyString_Check(op'.a1) /\ op'.a1.s \in MalformedHex)
        => /\ res'.err = "ValueError"
           /\ entries' = entries
           /\ handles' = handles
           /\ res'.db = DbNone
           /\ db' = db]_vars

\* set_id with a malformed text has failed on a wrapper of a present entry.
C9_Witness ==
    /\ op.name = "TreeEntry_set_sha" /\ op.a1.s \in MalformedHex
    /\ res.err = "ValueError"
    /\ handles[op.h] >= 1 /\ handles[op.h] <= Tree_len(entries)

-----------------------------------------------------------------------------
(* libgit2's repository, database and object interface. *)

KnownTypes == {"commit", "tree", "blob", "tag"}

git_odb_exists(d, oid) == d[oid] # Absent

\* [rc, raw]: on failure raw.data is NULL (raw is Absent).
git_odb_read(d, oid) ==
    IF d[oid] = Absent THEN [rc |-> -1, raw |-> Absent] ELSE [rc |-> 0, raw |-> d[oid]]

\* The native object of an oid (NoObj for NULL): it is not modified, and the
\* repository owns it.
git_repository_lookup(d, oid) ==
    IF d[oid] = Absent THEN NoObj ELSE WObj(d[oid].type, oid, FALSE, 0, d[oid].data)

git_object_type(o) == o.type
git_object_id(o) == o.id

\* git_commit_new, git_object_new: an in-memory object with empty fields and
\* no id; NoObj (NULL) when the allocation fails.
git_object_new(type, alloc_ok) ==
    IF alloc_ok THEN WObj(type, NoId, FALSE, 0, EmptyData) ELSE NoObj

git_commit_set_message(o, message) ==
    [o EXCEPT !.data.message = message, !.modified = TRUE]

git_commit_set_author(o, name, email, time) ==
    [o EXCEPT !.data.author = [name |-> name, email |-> email, time |-> time],
              !.modified = TRUE]

git_commit_set_committer(o, name, email, time) ==
    [o EXCEPT !.data.committer = [name |-> name, email |-> email, time |-> time],
              !.modified = TRUE]

\* The id of a content: the oid the database already holds it under, and
\* fresh, an oid the database holds nothing under, for a content it has not.
HashOf(d, type, data, fresh) ==
    IF \E x \in DbOids : d[x] = Stored(type, data)
    THEN CHOOSE x \in DbOids : d[x] = Stored(type, data)
    ELSE fresh

\* [rc, obj, db, acc]: an object that has an id and was not modified since
\* it was read or written is not written again; any other is serialized and
\* stored under the id of its content, which becomes its id, unless the
\* store fails (storage_ok is false).
git_object_write(o, d, storage_ok, fresh) ==
    IF o.id # NoId /\ ~o.modified
    THEN [rc |-> 0, obj |-> o, db |-> d, acc |-> DbNone]
    ELSE IF ~storage_ok
    THEN [rc |-> -1, obj |-> o, db |-> d, acc |-> DbWrite]
    ELSE LET id == HashOf(d, o.type, o.data, fresh)
         IN  [rc |-> 0,
              obj |-> [o EXCEPT !.id = id, !.modified = FALSE],
              db |-> [d EXCEPT ![id] = Stored(o.type, o.data)],
              acc |-> DbWrite]

-----------------------------------------------------------------------------
(* The values the Repository and Object handlers return. *)

Val(k, b, raw, s) == [k |-> k, b |-> b, raw |-> raw, s |-> s]
NoVal == Val("None", FALSE, Absent, <<>>)
BoolVal(b) == Val("bool", b, Absent, <<>>)
StrVal(s) == Val("str", FALSE, Absent, s)
\* (type, bytes) of Repository.read, and the bytes of Object.read_raw.
RawVal(raw) == Val("raw", FALSE, raw, <<>>)
BytesVal(data) == Val("bytes", FALSE, Stored("", data), <<>>)

-----------------------------------------------------------------------------
(* The Repository handlers of pygit2.c. *)

\* Repository_contains that takes the library's answer for an error code,
\* 0 meaning found.
Repository_contains_Inverted(d, value) ==
    IF ~PyString_Check(value) THEN Result("TypeError", NoVal, DbNone)
    ELSE IF ~git_oid_mkstr(value.s).ok THEN Result("ValueError", NoVal, DbNone)
    ELSE Result(NoErr, BoolVal(~git_odb_exists(d, git_oid_mkstr(value.s).oid)), DbRead)

\* [err, val, db]
Repository_contains(d, value) ==
    IF ~PyString_Check(value) THEN Result("TypeError", NoVal, DbNone)
    ELSE IF ~git_oid_mkstr(value.s).ok THEN Result("ValueError", NoVal, DbNone)
    ELSE Result(NoErr, BoolVal(git_odb_exists(d, git_oid_mkstr(value.s).oid)), DbRead)

\* wrap_object whose default case allocates a plain Object wrapper.
wrap_object_Default(o, ndebug) == [err |-> NoErr, obj |-> o]

\* [err, obj]: the wrapper of a native object. A type that is none of the
\* four fails the assert(0) and aborts the process; in a build with NDEBUG
\* the assert is gone, py_obj stays NULL and NULL is returned with no
\* exception set, which the interpreter reports as SystemError.
wrap_object(o, ndebug) ==
    IF git_object_type(o) \in KnownTypes THEN [err |-> NoErr, obj |-> o]
    ELSE IF ndebug THEN [err |-> "SystemError", obj |-> NoObj]
    ELSE [err |-> "Abort", obj |-> NoObj]

\* [err, obj, db]
Repository_getitem(d, value, ndebug) ==
    IF ~PyString_Check(value) THEN [err |-> "TypeError", obj |-> NoObj, db |-> DbNone]
    ELSE IF ~git_oid_mkstr(value.s).ok
    THEN [err |-> "ValueError", obj |-> NoObj, db |-> DbNone]
    ELSE LET o == git_repository_lookup(d, git_oid_mkstr(value.s).oid)
         IN  IF ~o.live THEN [err |-> "RuntimeError", obj |-> NoObj, db |-> DbRead]
             ELSE LET w == wrap_object(o, ndebug)
                  IN  IF w.err # NoErr THEN [err |-> w.err, obj |-> NoObj, db |-> DbRead]
                      ELSE [err |-> NoErr, obj |-> [w.obj EXCEPT !.own_obj = 0],
                            db |-> DbRead]

\* The raw object read, Absent (raw.data is NULL) when the read failed.
repository_raw_read(d, oid) == git_odb_read(d, oid).raw

\* [err, val, db]
Repository_read(d, py_hex) ==
    IF ~PyString_Check(py_hex) THEN Result("TypeError", NoVal, DbNone)
    ELSE IF ~git_oid_mkstr(py_hex.s).ok THEN Result("ValueError", NoVal, DbNone)
    ELSE LET raw == repository_raw_read(d, git_oid_mkstr(py_hex.s).oid)
         IN  IF raw = Absent THEN Result("RuntimeError", NoVal, DbRead)
             ELSE Result(NoErr, RawVal(raw), DbRead)

-----------------------------------------------------------------------------
(* The Object handlers of pygit2.c. *)

Object_get_type(o) == git_object_type(o)

\* Object_get_sha without the test for a NULL id: the id is formatted
\* whether or not the object has one.
Object_get_sha_Unchecked(o) ==
    Result(NoErr, StrVal(git_oid_fmt(git_object_id(o))), DbNone)

\* Object_get_sha that reports no id for an object modified since it was
\* read or written.
Object_get_sha_Dirty(o) ==
    IF git_object_id(o) = NoId \/ o.modified THEN Result(NoErr, NoVal, DbNone)
    ELSE Result(NoErr, StrVal(git_oid_fmt(git_object_id(o))), DbNone)

\* [err, val, db]
Object_get_sha(o) ==
    IF git_object_id(o) = NoId THEN Result(NoErr, NoVal, DbNone)
    ELSE Result(NoErr, StrVal(git_oid_fmt(git_object_id(o))), DbNone)

\* Object_read_raw that serializes the wrapper's in-memory fields instead of
\* reading the stored bytes.
Object_read_raw_FromMemory(d, o) ==
    IF git_object_id(o) = NoId THEN Result(NoErr, NoVal, DbNone)
    ELSE Result(NoErr, BytesVal(o.data), DbRead)

Object_read_raw(d, o) ==
    IF git_object_id(o) = NoId THEN Result(NoErr, NoVal, DbNone)
    ELSE LET raw == repository_raw_read(d, git_object_id(o))
         IN  IF raw = Absent THEN Result("RuntimeError", NoVal, DbRead)
             ELSE Result(NoErr, BytesVal(raw.data), DbRead)

\* Object_write that calls git_object_write a second time when the first
\* call fails; the second store is accepted.
Object_write_Retrying(o, d, storage_ok, fresh) ==
    LET w1 == git_object_write(o, d, storage_ok, fresh)
        w == IF w1.rc < 0 THEN git_object_write(o, d, TRUE, fresh) ELSE w1
    IN  IF w.rc < 0
        THEN [err |-> "RuntimeError", val |-> NoVal, obj |-> o, db |-> d, acc |-> w.acc]
        ELSE [err |-> NoErr, val |-> NoVal, obj |-> w.obj, db |-> w.db, acc |-> w.acc]

\* Object_write that takes a return code of 0 for the failure.
Object_write_ZeroFails(o, d, storage_ok, fresh) ==
    LET w == git_object_write(o, d, storage_ok, fresh)
    IN  IF w.rc = 0
        THEN [err |-> "RuntimeError", val |-> NoVal, obj |-> w.obj, db |-> w.db, acc |-> w.acc]
        ELSE [err |-> NoErr, val |-> NoVal, obj |-> o, db |-> d, acc |-> w.acc]

\* [err, val, obj, db, acc]: write returns None.
Object_write(o, d, storage_ok, fresh) ==
    LET w == git_object_write(o, d, storage_ok, fresh)
    IN  IF w.rc < 0
        THEN [err |-> "RuntimeError", val |-> NoVal, obj |-> o, db |-> d, acc |-> w.acc]
        ELSE [err |-> NoErr, val |-> NoVal, obj |-> w.obj, db |-> w.db, acc |-> w.acc]

\* [err, obj]: the wrapper Commit(repo), Blob(repo) initializes.
Commit_init(alloc_ok) ==
    LET commit == git_object_new("commit", alloc_ok)
    IN  IF ~commit.live THEN [err |-> "MemoryError", obj |-> NoObj]
        ELSE [err |-> NoErr, obj |-> [commit EXCEPT !.own_obj = 1]]

Blob_init(alloc_ok) ==
    LET blob == git_object_new("blob", alloc_ok)
    IN  IF ~blob.live THEN [err |-> "MemoryError", obj |-> NoObj]
        ELSE [err |-> NoErr, obj |-> [blob EXCEPT !.own_obj = 1]]

-----------------------------------------------------------------------------
(* The Commit setters of pygit2.c. *)

\* PyArg_ParseTuple(value, "ssL", ...): [err, name, email, time]. A value
\* that is no tuple is a SystemError, a tuple of another length or with an
\* item of another type a TypeError.
ParseTuple_ssL(value) ==
    IF value.t # "tuple"
    THEN [err |-> "SystemError", name |-> <<>>, email |-> <<>>, time |-> 0]
    ELSE IF \/ Len(value.items) # 3
            \/ ~PyString_Check(value.items[1])
            \/ ~PyString_Check(value.items[2])
            \/ ~PyInt_Check(value.items[3])
    THEN [err |-> "TypeError", name |-> <<>>, email |-> <<>>, time |-> 0]
    ELSE [err |-> NoErr, name |-> value.items[1].s, email |-> value.items[2].s,
          time |-> value.items[3].n]

\* [err, obj]
Commit_set_message(o, message) ==
    IF ~PyString_Check(message) THEN [err |-> "TypeError", obj |-> o]
    ELSE [err |-> NoErr, obj |-> git_commit_set_message(o, message.s)]

Commit_set_committer(o, value) ==
    LET a == ParseTuple_ssL(value)
    IN  IF a.err # NoErr THEN [err |-> a.err, obj |-> o]
        ELSE [err |-> NoErr, obj |-> git_commit_set_committer(o, a.name, a.email, a.time)]

\* Commit_set_author that converts and stores item by item: the name and
\* the email are stored before the timestamp is looked at.
Commit_set_author_Partial(o, value) ==
    LET a == ParseTuple_ssL(value)
    IN  IF a.err = NoErr
        THEN [err |-> NoErr, obj |-> git_commit_set_author(o, a.name, a.email, a.time)]
        ELSE IF /\ value.t = "tuple" /\ Len(value.items) = 3
                /\ PyString_Check(value.items[1]) /\ PyString_Check(value.items[2])
        THEN [err |-> a.err,
              obj |-> git_commit_set_author(o, value.items[1].s, value.items[2].s,
                                            o.data.author.time)]
        ELSE [err |-> a.err, obj |-> o]

Commit_set_author(o, value) ==
    LET a == ParseTuple_ssL(value)
    IN  IF a.err # NoErr THEN [err |-> a.err, obj |-> o]
        ELSE [err |-> NoErr, obj |-> git_commit_set_author(o, a.name, a.email, a.time)]

-----------------------------------------------------------------------------
(* The repository specification: one Repository over a database, and the   *)
(* one Object wrapper the caller holds, looked up or a new Blob.           *)
(* The commit specification: the same, the wrapper being a Commit, looked  *)
(* up or new, with its setters.                                            *)

Person1 == [name |-> <<"A">>, email |-> <<"a">>, time |-> 1000]

LowData == Data(<<"m">>, Person1, Person1, <<"p">>)
OtherData == Data(<<>>, NoPerson, NoPerson, <<"x">>)

\* The databases the repository is opened on: OidLow is absent, a commit, or
\* an object whose type tag is none of the four; OidOther is a tree, a blob
\* or a tag; OidThird is absent.
ObjDbs ==
    {[o \in DbOids |-> IF o = OidLow THEN low ELSE IF o = OidOther THEN other ELSE Absent] :
        low \in {Absent, Stored("commit", LowData), Stored("bad", LowData)},
        other \in {Stored("tree", OtherData), Stored("blob", OtherData),
                   Stored("tag", OtherData)}}

\* The database of the commit specification: a commit under OidLow, a blob
\* under OidOther.
CommitDb ==
    [o \in DbOids |-> IF o = OidLow THEN Stored("commit", LowData)
                      ELSE IF o = OidOther THEN Stored("blob", OtherData)
                      ELSE Absent]

RepoHex == {HexLow, HexOther, HexThird, HexUpper, HexBadChar, HexShort, HexLong}

RepoValues == {PyStr(h) : h \in RepoHex} \cup {PyNone}

CommitLookups == {PyStr(HexLow), PyStr(HexThird)}

MessageValues == {PyStr(<<"n">>), PyInt(7), PyNone}

ValidPerson == PyTuple(<<PyStr(<<"B">>), PyStr(<<"b">>), PyInt(2000)>>)
BadArity == PyTuple(<<PyStr(<<"B">>), PyStr(<<"b">>)>>)
BadName == PyTuple(<<PyInt(1), PyStr(<<"b">>), PyInt(2000)>>)
BadEmail == PyTuple(<<PyStr(<<"B">>), PyNone, PyInt(2000)>>)
BadTime == PyTuple(<<PyStr(<<"B">>), PyStr(<<"b">>), PyStr(<<"t">>)>>)
NotTuple == PyStr(<<"B">>)

MalformedTriples == {BadArity, BadName, BadEmail, BadTime}
AuthorValues == {ValidPerson, NotTuple} \cup MalformedTriples
CommitterValues == {ValidPerson, BadTime}

\* The oids a content the database does not hold may hash to.
FreshOids(d) ==
    IF \E x \in DbOids : d[x] = Absent THEN {x \in DbOids : d[x] = Absent} ELSE {NoId}

\* The specifications let a new content hash to OidThird alone.
ModelFresh(d) == FreshOids(d) \cap {OidThird, NoId}

\* The database's answer to a store, as the write's recorded input.
StoreAnswer(storage_ok) == PyStr(IF storage_ok THEN <<"o", "k">> ELSE <<"f", "a", "i", "l">>)

\* The process has not aborted.
Alive == res.err # "Abort"

RepoInit ==
    /\ entries = <<>>
    /\ handles = <<>>
    /\ db \in ObjDbs
    /\ obj = NoObj
    /\ obj2 = NoObj
    /\ life = NoLife
    /\ op = Op("Repository_init", 0, PyNULL, PyNULL, PyNULL)
    /\ res = Result(NoErr, NoVal, DbNone)

CommitSpecInit ==
    /\ entries = <<>>
    /\ handles = <<>>
    /\ db = CommitDb
    /\ obj = NoObj
    /\ obj2 = NoObj
    /\ life = NoLife
    /\ op = Op("Repository_init", 0, PyNULL, PyNULL, PyNULL)
    /\ res = Result(NoErr, NoVal, DbNone)

\* value in repo
RepoContains(value) ==
    /\ Alive
    /\ op' = Op("Repository_contains", 0, value, PyNULL, PyNULL)
    /\ res' = Repository_contains(db, value)
    /\ UNCHANGED <<entries, handles, db, obj, obj2, life>>

\* obj = repo[value]; the wrapper the caller held before is dropped.
RepoGetItem(value, ndebug) ==
    LET r == Repository_getitem(db, value, ndebug)
    IN  /\ Alive
        /\ obj' = IF r.err = NoErr THEN r.obj ELSE obj
        /\ op' = Op("Repository_getitem", 0, value, PyNULL, PyNULL)
        /\ res' = Result(r.err, NoVal, r.db)
        /\ UNCHANGED <<entries, handles, db, obj2, life>>

\* repo.read(value)
RepoRead(value) ==
    /\ Alive
    /\ op' = Op("Repository_read", 0, value, PyNULL, PyNULL)
    /\ res' = Repository_read(db, value)
    /\ UNCHANGED <<entries, handles, db, obj, obj2, life>>

\* obj = Commit(repo)
CommitInit(alloc_ok) ==
    LET r == Commit_init(alloc_ok)
    IN  /\ Alive
        /\ obj' = IF r.err = NoErr THEN r.obj ELSE obj
        /\ op' = Op("Commit_init", 0, PyNULL, PyNULL, PyNULL)
        /\ res' = Result(r.err, NoVal, DbNone)
        /\ UNCHANGED <<entries, handles, db, obj2, life>>

\* obj = Blob(repo)
BlobInit(alloc_ok) ==
    LET r == Blob_init(alloc_ok)
    IN  /\ Alive
        /\ obj' = IF r.err = NoErr THEN r.obj ELSE obj
        /\ op' = Op("Blob_init", 0, PyNULL, PyNULL, PyNULL)
        /\ res' = Result(r.err, NoVal, DbNone)
        /\ UNCHANGED <<entries, handles, db, obj2, life>>

\* obj.message = value
CommitSetMessage(value) ==
    LET r == Commit_set_message(obj, value)
    IN  /\ Alive /\ obj.live /\ obj.type = "commit"
        /\ obj' = r.obj
        /\ op' = Op("Commit_set_message", 0, value, PyNULL, PyNULL)
        /\ res' = Result(r.err, NoVal, DbNone)
        /\ UNCHANGED <<entries, handles, db, obj2, life>>

\* obj.author = value
CommitSetAuthor(value) ==
    LET r == Commit_set_author(obj, value)
    IN  /\ Alive /\ obj.live /\ obj.type = "commit"
        /\ obj' = r.obj
        /\ op' = Op("Commit_set_author", 0, value, PyNULL, PyNULL)
        /\ res' = Result(r.err, NoVal, DbNone)
        /\ UNCHANGED <<entries, handles, db, obj2, life>>

\* obj.committer = value
CommitSetCommitter(value) ==
    LET r == Commit_set_committer(obj, value)
    IN  /\ Alive /\ obj.live /\ obj.type = "commit"
        /\ obj' = r.obj
        /\ op' = Op("Commit_set_committer", 0, value, PyNULL, PyNULL)
        /\ res' = Result(r.err, NoVal, DbNone)
        /\ UNCHANGED <<entries, handles, db, obj2, life>>

\* obj.sha
ObjectGetSha ==
    /\ Alive /\ obj.live
    /\ op' = Op("Object_get_sha", 0, PyNULL, PyNULL, PyNULL)
    /\ res' = Object_get_sha(obj)
    /\ UNCHANGED <<entries, handles, db, obj, obj2, life>>

\* obj.read_raw()
ObjectReadRaw ==
    /\ Alive /\ obj.live
    /\ op' = Op("Object_read_raw", 0, PyNULL, PyNULL, PyNULL)
    /\ res' = Object_read_raw(db, obj)
    /\ UNCHANGED <<entries, handles, db, obj, obj2, life>>

\* obj.write(); a store that the database has no oid left for does not
\* happen in the model. op.a1 records the call's other input, whether the
\* database accepts a store.
ObjectWrite(storage_ok, fresh) ==
    LET r == Object_write(obj, db, storage_ok, fresh)
    IN  /\ Alive /\ obj.live
        /\ r.err = NoErr => r.obj.id # NoId
        /\ obj' = r.obj
        /\ db' = r.db
        /\ op' = Op("Object_write", 0, StoreAnswer(storage_ok), PyNULL, PyNULL)
        /\ res' = Result(r.err, r.val, r.acc)
        /\ UNCHANGED <<entries, handles, obj2, life>>

\* The caller drops the wrapper.
ObjectDealloc ==
    /\ Alive /\ obj.live
    /\ obj' = NoObj
    /\ op' = Op("Object_dealloc", 0, PyNULL, PyNULL, PyNULL)
    /\ res' = Result(NoErr, NoVal, DbNone)
    /\ UNCHANGED <<entries, handles, db, obj2, life>>

RepoNext ==
    \/ \E value \in RepoValues : RepoContains(value)
    \/ \E value \in RepoValues, ndebug \in BOOLEAN : RepoGetItem(value, ndebug)
    \/ \E value \in RepoValues : RepoRead(value)
    \/ \E alloc_ok \in BOOLEAN : BlobInit(alloc_ok)
    \/ ObjectGetSha
    \/ ObjectReadRaw
    \/ \E storage_ok \in BOOLEAN, fresh \in ModelFresh(db) : ObjectWrite(storage_ok, fresh)
    \/ ObjectDealloc

SpecRepo == RepoInit /\ [][RepoNext]_vars

CommitNext ==
    \/ \E value \in CommitLookups, ndebug \in BOOLEAN : RepoGetItem(value, ndebug)
    \/ \E alloc_ok \in BOOLEAN : CommitInit(alloc_ok)
    \/ \E value \in MessageValues : CommitSetMessage(value)
    \/ \E value \in AuthorValues : CommitSetAuthor(value)
    \/ \E value \in CommitterValues : CommitSetCommitter(value)
    \/ ObjectGetSha
    \/ \E storage_ok \in BOOLEAN, fresh \in ModelFresh(db) : ObjectWrite(storage_ok, fresh)
    \/ ObjectDealloc

SpecCommit == CommitSpecInit /\ [][CommitNext]_vars

-----------------------------------------------------------------------------
(* Properties of the Repository, Object and Commit handlers. *)

\* The exception classes of a lookup or a raw read of a malformed hex text,
\* and of a well-formed id the database does not hold.
MalformedKinds ==
    {Repository_getitem(db, PyStr(h), nd).err : h \in MalformedHex, nd \in BOOLEAN}
        \cup {Repository_read(db, PyStr(h)).err : h \in MalformedHex}

AbsentHex == {h \in WellFormedHex : db[git_oid_mkstr(h).oid] = Absent}

AbsentKinds ==
    {Repository_getitem(db, PyStr(h), nd).err : h \in AbsentHex, nd \in BOOLEAN}
        \cup {Repository_read(db, PyStr(h)).err : h \in AbsentHex}

\* C6 as stated: for a well-formed id the database does not hold, lookup
\* fails with RuntimeError (the binding's not-found error) and contains is
\* false; for every well-formed id contains is true exactly when lookup
\* succeeds.
C6_LookupContains_Original ==
    \A h \in WellFormedHex, nd \in BOOLEAN :
        LET c == Repository_contains(db, PyStr(h))
            g == Repository_getitem(db, PyStr(h), nd)
        IN  /\ c.err = NoErr
            /\ h \in AbsentHex => (g.err = "RuntimeError" /\ c.val = BoolVal(FALSE))
            /\ c.val.b <=> g.err = NoErr

\* C6, amended: for a well-formed id the database does not hold, lookup
\* fails with RuntimeError and contains is false; for every well-formed id
\* lookup succeeds exactly when contains is true and the stored type tag is
\* one of commit, tree, blob, tag (under any other tag contains is true and
\* lookup faults).
C6_LookupContains ==
    /\ \A h \in WellFormedHex, nd \in BOOLEAN :
          LET c == Repository_contains(db, PyStr(h))
              g == Repository_getitem(db, PyStr(h), nd)
              stored == db[git_oid_mkstr(h).oid]
          IN  /\ c.err = NoErr
              /\ h \in AbsentHex => (g.err = "RuntimeError" /\ c.val = BoolVal(FALSE))
              /\ g.err = NoErr <=> (c.val.b /\ stored.type \in KnownTypes)
              /\ (c.val.b /\ stored.type \notin KnownTypes) => g.err \in {"Abort", "SystemError"}
    /\ (op.name = "Repository_contains" /\ PyString_Check(op.a1) /\ op.a1.s \in WellFormedHex)
          => (res.err = NoErr /\ res.val = BoolVal(op.a1.s \notin AbsentHex))
    /\ (op.name = "Repository_getitem" /\ PyString_Check(op.a1) /\ op.a1.s \in AbsentHex)
          => res.err = "RuntimeError"

\* A lookup of an id the database does not hold has failed, in a database
\* that holds another object.
C6_Witness ==
    /\ op.name = "Repository_getitem" /\ op.a1 = PyStr(HexLow)
    /\ res.err = "RuntimeError"
    /\ db[OidLow] = Absent /\ db[OidOther] # Absent

\* C7: the exception classes of a malformed hex id, of an absent id and of
\* a failed write are pairwise distinct.
C7_DistinctKinds ==
    /\ MalformedKinds \cap AbsentKinds = {}
    /\ (op.name = "Object_write" /\ res.err # NoErr)
          => res.err \notin (MalformedKinds \cup AbsentKinds)

\* C8: setting a commit's message to a value that is no text, or its author
\* or committer to a malformed triple, fails with TypeError and leaves the
\* commit (message, author, committer) and the database as they were.
C8_SetterAtomic ==
    [][(\/ op'.name = "Commit_set_message" /\ ~PyString_Check(op'.a1)
        \/ /\ op'.name \in {"Commit_set_author", "Commit_set_committer"}
           /\ op'.a1 \in MalformedTriples)
        => /\ res'.err = "TypeError"
           /\ obj'.data = obj.data
           /\ obj' = obj
           /\ db' = db]_vars

\* author = (text, text, text) has failed on a commit whose author was set.
C8_Witness ==
    /\ op.name = "Commit_set_author" /\ op.a1 = BadTime
    /\ res.err = "TypeError"
    /\ obj.data.author = Person1 /\ obj.data.message = <<"n">>

SameWrapperOps ==
    {"Commit_set_message", "Commit_set_author", "Commit_set_committer",
     "Object_get_sha", "Object_read_raw", "Object_write"}

\* C11: a write() the database rejects fails with RuntimeError, once (no
\* second attempt), and a failed write() leaves the object's id (none for
\* an object never written) and the database as they were.
C11_FailedWrite ==
    [][op'.name = "Object_write" =>
        /\ (op'.a1 = StoreAnswer(FALSE) /\ (obj.id = NoId \/ obj.modified))
              => res'.err = "RuntimeError"
        /\ res'.err # NoErr =>
              /\ res'.err = "RuntimeError"
              /\ obj'.id = obj.id
              /\ Object_get_sha(obj') = Object_get_sha(obj)
              /\ obj' = obj
              /\ db' = db]_vars

\* write() has failed on a looked-up commit that was modified: its id is
\* still the one it was looked up under.
C11_Witness ==
    /\ op.name = "Object_write" /\ res.err = "RuntimeError"
    /\ obj.live /\ obj.own_obj = 0 /\ obj.modified
    /\ obj.id = OidLow /\ db[OidLow] = Stored("commit", LowData)

\* C12: a wrapper reports no id exactly when its object was never written
\* successfully: a looked-up object reports an id, a new Commit reports
\* none, a successful write() makes it report one, and no setter, read or
\* failed write() changes whether it reports one.
C12_IdIffWritten ==
    [][/\ (op'.name = "Repository_getitem" /\ res'.err = NoErr)
             => Object_get_sha(obj').val.k = "str"
       /\ (op'.name = "Commit_init" /\ res'.err = NoErr)
             => Object_get_sha(obj').val = NoVal
       /\ (op'.name = "Object_write" /\ res'.err = NoErr)
             => /\ Object_get_sha(obj').val.k = "str"
                /\ db'[obj'.id] = Stored(obj'.type, obj'.data)
       /\ (op'.name \in SameWrapperOps /\ ~(op'.name = "Object_write" /\ res'.err = NoErr))
             => (Object_get_sha(obj').val = NoVal <=> Object_get_sha(obj).val = NoVal)]_vars

\* A new Commit whose fields were set and whose write() failed still has
\* no id.
C12_Witness ==
    /\ op.name = "Object_write" /\ res.err = "RuntimeError"
    /\ obj.live /\ obj.own_obj = 1 /\ obj.data.message = <<"n">>
    /\ Object_get_sha(obj).val = NoVal

-----------------------------------------------------------------------------
(* TreeEntry.to_object, and the resolve specification: a Tree of at most   *)
(* MaxResolveLen entries against a database that may hold an object of an *)
(* unknown type, one TreeEntry wrapper, and the Object wrapper that a      *)
(* lookup or a resolve returns.                                            *)

MaxResolveLen == 1

\* git_tree_entry_2object: the native object of the entry's target id, NoObj
\* (NULL) when the repository has none.
git_tree_entry_2object(d, oid) == git_repository_lookup(d, oid)

\* TreeEntry_to_object whose KeyError carries the entry's name.
TreeEntry_to_object_NameKey(d, entry_oid, entry_name, ndebug) ==
    LET o == git_tree_entry_2object(d, entry_oid)
    IN  IF ~o.live
        THEN [err |-> "KeyError", val |-> StrVal(entry_name), obj |-> NoObj, db |-> DbRead]
        ELSE LET w == wrap_object(o, ndebug)
             IN  [err |-> w.err, val |-> NoVal, obj |-> w.obj, db |-> DbRead]

\* [err, val, obj, db]: entry_oid and entry_name are what self->entry points
\* to. The KeyError's value is the hex text of the target id. The wrapper
\* comes zeroed from tp_alloc, so its own_obj is 0.
TreeEntry_to_object(d, entry_oid, entry_name, ndebug) ==
    LET o == git_tree_entry_2object(d, entry_oid)
    IN  IF ~o.live
        THEN [err |-> "KeyError", val |-> StrVal(git_oid_fmt(entry_oid)), obj |-> NoObj,
              db |-> DbRead]
        ELSE LET w == wrap_object(o, ndebug)
             IN  [err |-> w.err, val |-> NoVal, obj |-> w.obj, db |-> DbRead]

ResolveInit ==
    /\ entries = <<>>
    /\ handles = [h \in 1..MaxHandles |-> 0]
    /\ db \in ObjDbs
    /\ obj = NoObj
    /\ obj2 = NoObj
    /\ life = NoLife
    /\ op = Op("Tree_init", 0, PyNULL, PyNULL, PyNULL)
    /\ res = Result(NoErr, NoVal, DbNone)

\* obj = entry.to_object(); the wrapper the caller held before is dropped.
\* self->entry reads the entry it points to, and any id and name at all
\* when the entry was freed.
TreeEntryToObject(h, ndebug) ==
    /\ handles[h] # 0
    /\ \E e \in (IF handles[h] > 0 THEN {entries[handles[h]]}
                 ELSE {Entry(n, 0, o) : n \in Names, o \in DbOids}) :
          LET r == TreeEntry_to_object(db, e.oid, e.name, ndebug)
          IN  /\ obj' = IF r.err = NoErr THEN r.obj ELSE obj
              /\ op' = Op("TreeEntry_to_object", h, PyNULL, PyNULL, PyNULL)
              /\ res' = Result(r.err, r.val, r.db)
    /\ UNCHANGED <<entries, handles, db, obj2, life>>

ResolveNext ==
    \/ Alive /\ \E key \in {PyInt(0), PyStr(<<"b">>)} : TreeGetItem(key)
    \/ Alive /\ \E h \in {HexThird, HexUpper} :
          TreeAddEntry(<<PyStr(h), PyStr(<<"a">>), PyInt(33188)>>, TRUE, 0, MaxResolveLen)
    \/ Alive /\ \E h \in DOMAIN handles, value \in ShaValues : TreeEntrySetSha(h, value)
    \/ Alive /\ \E h \in DOMAIN handles, ndebug \in BOOLEAN : TreeEntryToObject(h, ndebug)
    \/ \E value \in RepoValues, ndebug \in BOOLEAN : RepoGetItem(value, ndebug)
    \/ ObjectGetSha

SpecResolve == ResolveInit /\ [][ResolveNext]_vars

-----------------------------------------------------------------------------
(* Properties of TreeEntry.to_object and of the dispatch on the type tag. *)

\* The target id of the entry the wrapper in slot h points to.
TargetOf(h) == entries[handles[h]].oid

\* C14 as stated: to_object() returns an object whose id is the entry's
\* current target id whenever the database holds that id, and otherwise
\* fails with KeyError (the binding's not-found error) whose value is the
\* hex text of that id.
C14_Resolve_Original ==
    [][(op'.name = "TreeEntry_to_object" /\ handles[op'.h] > 0) =>
        LET target == TargetOf(op'.h)
        IN  /\ db[target] # Absent =>
                  /\ res'.err = NoErr
                  /\ obj'.live /\ obj'.id = target
                  /\ Object_get_sha(obj').val = StrVal(git_oid_fmt(target))
            /\ db[target] = Absent =>
                  /\ res'.err = "KeyError"
                  /\ res'.val = StrVal(git_oid_fmt(target))
                  /\ obj' = obj]_vars

\* C14, amended: to_object() returns an object whose id is the entry's
\* current target id whenever the database holds that id under one of the
\* four known type tags; it faults and returns nothing when the tag is
\* unknown; and it fails with KeyError whose value is the hex text of the
\* target id when the database does not hold the id.
C14_Resolve ==
    [][(op'.name = "TreeEntry_to_object" /\ handles[op'.h] > 0) =>
        LET target == TargetOf(op'.h)
        IN  /\ (db[target] # Absent /\ db[target].type \in KnownTypes) =>
                  /\ res'.err = NoErr
                  /\ obj'.live /\ obj'.id = target /\ obj'.own_obj = 0
                  /\ Object_get_sha(obj').val = StrVal(git_oid_fmt(target))
            /\ (db[target] # Absent /\ db[target].type \notin KnownTypes) =>
                  /\ res'.err \in {"Abort", "SystemError"}
                  /\ obj' = obj
            /\ db[target] = Absent =>
                  /\ res'.err = "KeyError"
                  /\ res'.val = StrVal(git_oid_fmt(target))
                  /\ obj' = obj
            /\ db' = db /\ entries' = entries]_vars

\* An entry added under one id and re-pointed by the sha setter was
\* resolved: the object returned has the id last set.
C14_Witness ==
    /\ op.name = "TreeEntry_to_object" /\ res.err = NoErr
    /\ handles[1] > 0 /\ TargetOf(1) = OidOther
    /\ obj.live /\ obj.id = OidOther /\ db[OidOther] # Absent

\* C17: for an id stored under a type tag that is none of commit, tree,
\* blob, tag, a lookup and a to_object() return no wrapper: they end in the
\* assertion's abort or, without assertions, in SystemError; for the four
\* known tags the wrapper's type is the stored tag.
C17_TypeDispatch ==
    /\ \A v \in {PyStr(h) : h \in WellFormedHex}, o \in DbOids, nd \in BOOLEAN :
          LET g == Repository_getitem(db, v, nd)
              r == TreeEntry_to_object(db, o, <<"a">>, nd)
              gid == git_oid_mkstr(v.s).oid
          IN  /\ (db[gid] # Absent /\ db[gid].type \notin KnownTypes) =>
                    (g.err = (IF nd THEN "SystemError" ELSE "Abort") /\ g.obj = NoObj)
              /\ (db[gid] # Absent /\ db[gid].type \in KnownTypes) =>
                    (g.err = NoErr /\ g.obj.live /\ Object_get_type(g.obj) = db[gid].type)
              /\ (db[o] # Absent /\ db[o].type \notin KnownTypes) =>
                    (r.err = (IF nd THEN "SystemError" ELSE "Abort") /\ r.obj = NoObj)
              /\ (db[o] # Absent /\ db[o].type \in KnownTypes) =>
                    (r.err = NoErr /\ r.obj.live /\ Object_get_type(r.obj) = db[o].type)
    /\ (op.name \in {"Repository_getitem", "TreeEntry_to_object"} /\ res.err = NoErr)
          => (obj.live /\ Object_get_type(obj) \in KnownTypes
                /\ db[obj.id] # Absent /\ Object_get_type(obj) = db[obj.id].type)
    /\ obj.live => Object_get_type(obj) \in KnownTypes

\* A to_object() of an entry whose target is stored under an unknown tag
\* has faulted, and the caller holds no wrapper.
C17_Witness ==
    /\ op.name = "TreeEntry_to_object" /\ res.err \in {"Abort", "SystemError"}
    /\ handles[1] > 0 /\ db[TargetOf(1)] # Absent
    /\ db[TargetOf(1)].type \notin KnownTypes
    /\ ~obj.live

-----------------------------------------------------------------------------
(* The pair specification: two Object wrappers the caller holds at once,   *)
(* each from a lookup; the first is read and, when a commit, given a new   *)
(* message in memory.  Nothing is written to the database.                 *)

PairInit ==
    /\ entries = <<>>
    /\ handles = <<>>
    /\ db \in ObjDbs
    /\ obj = NoObj
    /\ obj2 = NoObj
    /\ life = NoLife
    /\ op = Op("Repository_init", 0, PyNULL, PyNULL, PyNULL)
    /\ res = Result(NoErr, NoVal, DbNone)

\* obj2 = repo[value]
RepoGetItemSecond(value, ndebug) ==
    LET r == Repository_getitem(db, value, ndebug)
    IN  /\ Alive
        /\ obj2' = IF r.err = NoErr THEN r.obj ELSE obj2
        /\ op' = Op("Repository_getitem", 2, value, PyNULL, PyNULL)
        /\ res' = Result(r.err, NoVal, r.db)
        /\ UNCHANGED <<entries, handles, db, obj, life>>

\* obj.type
ObjectGetType ==
    /\ Alive /\ obj.live
    /\ op' = Op("Object_get_type", 0, PyNULL, PyNULL, PyNULL)
    /\ res' = Result(NoErr, RawVal(Stored(Object_get_type(obj), <<>>)), DbNone)
    /\ UNCHANGED <<entries, handles, db, obj, obj2, life>>

PairNext ==
    \/ \E value \in RepoValues, ndebug \in BOOLEAN : RepoGetItem(value, ndebug)
    \/ \E value \in RepoValues, ndebug \in BOOLEAN : RepoGetItemSecond(value, ndebug)
    \/ ObjectGetType
    \/ ObjectGetSha
    \/ ObjectReadRaw
    \/ \E value \in MessageValues : CommitSetMessage(value)

SpecPair == PairInit /\ [][PairNext]_vars

\* The reads of a wrapper.
ReadOps == {"Object_get_type", "Object_get_sha", "Object_read_raw"}

-----------------------------------------------------------------------------
(* Reference counts and native allocations.  life.repo_rc is the           *)
(* Repository's ob_refcnt, repo_held whether the caller still holds its    *)
(* reference, repo_open whether git_repository_free has not run; life.w    *)
(* are the Object wrappers, life.e the TreeEntry wrappers, and             *)
(* life.natives counts, for every native object a *_init created, how      *)
(* often it was freed.                                                     *)

\* Object wrappers, TreeEntry wrappers and *_init calls of a behaviour.
MaxWrappers == 2
MaxLifeHandles == 1
MaxNatives == 2

\* A freed wrapper slot, and the wrapper tp_alloc returns: zeroed, with one
\* reference, the caller's.
NoWrapper ==
    [st |-> "free", type |-> "none", refs |-> 0, held |-> FALSE,
     repo |-> 0, own_obj |-> 0, native |-> 0]

tp_alloc(type) ==
    [st |-> "live", type |-> type, refs |-> 1, held |-> TRUE,
     repo |-> 0, own_obj |-> 0, native |-> 0]

\* Repository_dealloc: the database handle is released.
Repository_dealloc(l) == [l EXCEPT !.repo_open = FALSE]

\* Py_INCREF(repo), and Py_DECREF(repo): tp_dealloc runs at zero.
Repository_INCREF(l) == [l EXCEPT !.repo_rc = @ + 1]

Repository_DECREF(l) ==
    IF l.repo_rc = 1 THEN Repository_dealloc([l EXCEPT !.repo_rc = 0])
    ELSE [l EXCEPT !.repo_rc = @ - 1]

\* Object_dealloc, the tp_dealloc of Object, Commit, Tree and Blob;
\* git_object_free counts a free of the native object the wrapper created.
Object_dealloc(l, s) ==
    LET a == IF l.w[s].own_obj = 1 THEN [l EXCEPT !.natives[l.w[s].native] = @ + 1] ELSE l
        b == IF a.w[s].repo = 1 THEN Repository_DECREF(a) ELSE a
    IN  [b EXCEPT !.w[s] = NoWrapper]

\* Py_DECREF of the wrapper in slot s.
Object_DECREF(l, s) ==
    IF l.w[s].refs = 1 THEN Object_dealloc(l, s)
    ELSE [l EXCEPT !.w[s].refs = @ - 1]

\* wrap_object that stores the repo pointer without Py_INCREF.
wrap_object_refs_Borrowed(l, s, type, known) ==
    IF ~known THEN l
    ELSE [l EXCEPT !.w[s] = [tp_alloc(type) EXCEPT !.repo = 1]]

\* wrap_object on the reference counts: for a known type a wrapper is
\* allocated in slot s, pointed at repo, and repo is INCREFed; own_obj stays
\* 0. For an unknown type (assertions compiled out) nothing is allocated.
wrap_object_refs(l, s, type, known) ==
    IF ~known THEN l
    ELSE Repository_INCREF([l EXCEPT !.w[s] = [tp_alloc(type) EXCEPT !.repo = 1]])

\* Commit_init, Tree_init, Blob_init on the wrapper in slot s: when the
\* native object is allocated, repo is INCREFed and the wrapper's repo,
\* own_obj and native pointer are overwritten; what they held is not
\* released.
object_init(l, s, alloc_ok) ==
    IF ~alloc_ok THEN l
    ELSE LET a == Repository_INCREF([l EXCEPT !.natives = Append(@, 0)])
         IN  [a EXCEPT !.w[s].repo = 1, !.w[s].own_obj = 1, !.w[s].native = Len(a.natives)]

\* Commit(repo), Tree(repo), Blob(repo): tp_new, then tp_init; when tp_init
\* fails the interpreter drops the new wrapper.
type_call(l, s, type, alloc_ok) ==
    LET a == object_init([l EXCEPT !.w[s] = tp_alloc(type)], s, alloc_ok)
    IN  IF alloc_ok THEN a ELSE Object_DECREF([a EXCEPT !.w[s].held = FALSE], s)

\* wrap_tree_entry that stores the tree pointer without Py_INCREF.
wrap_tree_entry_refs_Borrowed(l, h, s) ==
    [l EXCEPT !.e[h] = [st |-> "live", tree |-> s]]

\* wrap_tree_entry on the reference counts: the TreeEntry wrapper in slot h
\* points at the Tree wrapper in slot s, which is INCREFed.
wrap_tree_entry_refs(l, h, s) ==
    [l EXCEPT !.e[h] = [st |-> "live", tree |-> s], !.w[s].refs = @ + 1]

\* TreeEntry_dealloc on the reference counts: Py_XDECREF(self->tree).
TreeEntry_dealloc_refs(l, h) ==
    Object_DECREF([l EXCEPT !.e[h] = [st |-> "free", tree |-> 0]], l.e[h].tree)

-----------------------------------------------------------------------------
(* The lifetime specification: one Repository the caller opened, up to     *)
(* MaxWrappers Object wrappers and MaxLifeHandles TreeEntry wrappers; the  *)
(* caller looks objects up, constructs them, calls __init__ again on a     *)
(* wrapper it holds, takes entries of a Tree, resolves them, and drops its *)
(* references in any order.                                                *)

LifeInit ==
    /\ entries = <<>>
    /\ handles = <<>>
    /\ db = EmptyDb
    /\ obj = NoObj
    /\ obj2 = NoObj
    /\ life = [repo_rc |-> 1, repo_held |-> TRUE, repo_open |-> TRUE,
               w |-> [s \in 1..MaxWrappers |-> NoWrapper],
               e |-> [h \in 1..MaxLifeHandles |-> [st |-> "free", tree |-> 0]],
               natives |-> <<>>]
    /\ op = Op("Repository_init", 0, PyNULL, PyNULL, PyNULL)
    /\ res = Result(NoErr, NoVal, DbNone)

LifeStep(name, slot, err, l) ==
    /\ life' = l
    /\ op' = Op(name, slot, PyNULL, PyNULL, PyNULL)
    /\ res' = Result(err, NoVal, DbNone)
    /\ UNCHANGED <<entries, handles, db, obj, obj2>>

\* w = repo[hex], for an object found in the database.
LifeLookup(s, type, known) ==
    /\ life.repo_held /\ life.w[s].st = "free"
    /\ LifeStep("Repository_getitem", s, IF known THEN NoErr ELSE "SystemError",
                wrap_object_refs(life, s, type, known))

\* w = Commit(repo), w = Tree(repo)
LifeConstruct(s, type, alloc_ok) ==
    /\ life.repo_held /\ life.w[s].st = "free"
    /\ Len(life.natives) < MaxNatives
    /\ LifeStep("tp_init", s, IF alloc_ok THEN NoErr ELSE "MemoryError",
                type_call(life, s, type, alloc_ok))

\* w.__init__(repo) on a wrapper the caller holds.
LifeReinit(s, alloc_ok) ==
    /\ life.repo_held /\ life.w[s].st = "live" /\ life.w[s].held
    /\ Len(life.natives) < MaxNatives
    /\ LifeStep("tp_init", s, IF alloc_ok THEN NoErr ELSE "MemoryError",
                object_init(life, s, alloc_ok))

\* e = tree[key], for an entry the tree holds.
LifeGetEntry(h, s) ==
    /\ life.w[s].st = "live" /\ life.w[s].held /\ life.w[s].type = "tree"
    /\ life.e[h].st = "free"
    /\ LifeStep("Tree_getitem", s, NoErr, wrap_tree_entry_refs(life, h, s))

\* w = e.to_object(), for a target found in the database: the repo handed
\* to wrap_object is self->tree->repo.
LifeResolve(h, s, type, known) ==
    /\ life.e[h].st = "live" /\ life.w[s].st = "free"
    /\ LifeStep("TreeEntry_to_object", s, IF known THEN NoErr ELSE "SystemError",
                wrap_object_refs(life, s, type, known))

\* del repo
LifeDropRepo ==
    /\ life.repo_held
    /\ LifeStep("del repo", 0, NoErr, Repository_DECREF([life EXCEPT !.repo_held = FALSE]))

\* del w
LifeDropObject(s) ==
    /\ life.w[s].st = "live" /\ life.w[s].held
    /\ LifeStep("del object", s, NoErr,
                Object_DECREF([life EXCEPT !.w[s].held = FALSE], s))

\* del e
LifeDropEntry(h) ==
    /\ life.e[h].st = "live"
    /\ LifeStep("del entry", h, NoErr, TreeEntry_dealloc_refs(life, h))

LifeNext ==
    \/ \E s \in 1..MaxWrappers, type \in {"commit", "tree"}, known \in BOOLEAN : LifeLookup(s, type, known)
    \/ \E s \in 1..MaxWrappers, type \in {"commit", "tree"}, alloc_ok \in BOOLEAN :
          LifeConstruct(s, type, alloc_ok)
    \/ \E s \in 1..MaxWrappers, alloc_ok \in BOOLEAN : LifeReinit(s, alloc_ok)
    \/ \E h \in 1..MaxLifeHandles, s \in 1..MaxWrappers : LifeGetEntry(h, s)
    \/ \E h \in 1..MaxLifeHandles, s \in 1..MaxWrappers, type \in {"commit", "tree"}, known \in BOOLEAN :
          LifeResolve(h, s, type, known)
    \/ LifeDropRepo
    \/ \E s \in 1..MaxWrappers : LifeDropObject(s)
    \/ \E h \in 1..MaxLifeHandles : LifeDropEntry(h)

SpecLife == LifeInit /\ [][LifeNext]_vars

-----------------------------------------------------------------------------
(* Properties of the reference counts. *)

LiveWrappers == {s \in DOMAIN life.w : life.w[s].st = "live"}
LiveEntries == {h \in DOMAIN life.e : life.e[h].st = "live"}

\* C15: the Repository's database handle is not released while an Object
\* wrapper from a lookup, a to_object() or a construction is alive: for
\* every live wrapper the Repository is open and its reference count is at
\* least the number of live wrappers.
C15_RepoOutlivesObjects ==
    /\ ~life.repo_open => LiveWrappers = {}
    /\ LiveWrappers # {} =>
          /\ life.repo_open
          /\ life.repo_rc >= Cardinality(LiveWrappers)
          /\ \A s \in LiveWrappers : life.w[s].repo = 1

\* After the caller dropped the Repository and the Tree, a to_object() on
\* an entry it kept returned a wrapper, and the Repository is still open.
C15_Witness ==
    /\ op.name = "TreeEntry_to_object" /\ res.err = NoErr
    /\ ~life.repo_held /\ life.repo_open
    /\ \E s \in LiveWrappers : life.w[s].held /\ life.w[s].own_obj = 0
    /\ \E s \in LiveWrappers : ~life.w[s].held

\* C19: a Tree wrapper is not destroyed while a TreeEntry wrapper taken
\* from it is alive: every live TreeEntry points at a live Tree wrapper,
\* whose reference count is the caller's reference plus one per TreeEntry
\* on it, and the Repository is open.
C19_TreeOutlivesEntries ==
    \A h \in LiveEntries :
        LET t == life.e[h].tree
        IN  /\ t \in LiveWrappers
            /\ life.w[t].type = "tree"
            /\ life.w[t].refs = (IF life.w[t].held THEN 1 ELSE 0)
                                  + Cardinality({g \in LiveEntries : life.e[g].tree = t})
            /\ life.repo_open /\ life.repo_rc >= 1

\* The caller dropped the Repository and then the Tree; the TreeEntry it
\* kept still points at the Tree wrapper, alive on the entry's reference.
C19_Witness ==
    /\ op.name = "del object"
    /\ ~life.repo_held
    /\ \E h \in LiveEntries :
          /\ life.e[h].tree \in LiveWrappers
          /\ ~life.w[life.e[h].tree].held
          /\ life.w[life.e[h].tree].refs = 1

\* C20: every wrapper holds exactly one reference on the Repository and
\* owns at most one native object, so that once every wrapper is destroyed
\* and the caller dropped the Repository, the Repository's reference count
\* is zero, its database handle is released, and every native object a
\* wrapper created was freed exactly once.
C20_Balanced ==
    /\ life.repo_rc = (IF life.repo_held THEN 1 ELSE 0)
                        + Cardinality({s \in LiveWrappers : life.w[s].repo = 1})
    /\ \A k \in DOMAIN life.natives : life.natives[k] <= 1
    /\ (LiveWrappers = {} /\ LiveEntries = {} /\ ~life.repo_held) =>
          /\ life.repo_rc = 0
          /\ ~life.repo_open
          /\ \A k \in DOMAIN life.natives : life.natives[k] = 1

-----------------------------------------------------------------------------
(* Properties of the TreeEntry wrappers' entry pointers. *)

\* C18: every live TreeEntry wrapper points to an entry its Tree still
\* holds, and no setter runs through a pointer to a removed entry.
C18_HandlesPresent ==
    /\ \A h \in DOMAIN handles : handles[h] # 0 => handles[h] \in 1..Len(entries)
    /\ op.name \in {"TreeEntry_set_name", "TreeEntry_set_sha"} => handles[op.h] > 0

====
